---- MODULE Spec2Model ----
(***************************************************************************)
(* GearVRf BaseTexture (objects/textures/base_texture.h): a 2D GL texture  *)
(* filled either from an Android bitmap or from a raw RGBA buffer.         *)
(*                                                                         *)
(* The state is the GL context (generated texture names, the binding slot  *)
(* of GL_TEXTURE_2D, the image storage of every texture name), the lock    *)
(* state of every bitmap, the stack frame of the constructor each thread   *)
(* is running, and the resources the callers hold.  A constructor is cut   *)
(* into one step per external call, so that two threads sharing the GL     *)
(* context can interleave; SerialSpec is the same program with the         *)
(* constructions serialized by the caller.                                 *)
(***************************************************************************)
EXTENDS Integers, Sequences, FiniteSets, TLC

(* ------------------------------ bounds --------------------------------- *)
\* Constructions started in one behaviour (also the number of GL names).
MaxConstructions == 2
\* Platform error codes are -1 .. -MaxErr (android/bitmap.h has -1, -2, -3).
MaxErr == 2
Threads == {"t1", "t2"}
Handles == 1..MaxConstructions
RetCodes == (0 - MaxErr)..0

(* --------------------------- program constants -------------------------- *)
GL_TEXTURE_2D == "GL_TEXTURE_2D"
GL_RGBA == "GL_RGBA"
GL_UNSIGNED_BYTE == "GL_UNSIGNED_BYTE"
\* static const GLenum TARGET = GL_TEXTURE_2D;
TARGET == GL_TEXTURE_2D

GetInfoLiteral == "AndroidBitmap_getInfo () failed! error = "
LockPixelsLiteral == "AndroidBitmap_lockPixels () failed! error = "

(* ------------------------------ inputs ---------------------------------- *)
\* The bitmaps of the platform: jobject handles with their AndroidBitmapInfo
\* and the byte size of their pixel storage (width * height * bytes/pixel).
Bitmaps == {"bmpRGBA", "bmp565"}
BitmapInfo(bitmap) ==
    IF bitmap = "bmpRGBA"
    THEN [width |-> 1, height |-> 2, format |-> "ANDROID_BITMAP_FORMAT_RGBA_8888"]
    ELSE [width |-> 2, height |-> 1, format |-> "ANDROID_BITMAP_FORMAT_RGB_565"]
BytesPerPixel(format) ==
    IF format = "ANDROID_BITMAP_FORMAT_RGBA_8888" THEN 4 ELSE 2
BitmapBytes(bitmap) ==
    BitmapInfo(bitmap).width * BitmapInfo(bitmap).height
        * BytesPerPixel(BitmapInfo(bitmap).format)
\* The raw buffers a caller may pass, with their byte lengths, and the
\* (width, height, buffer) arguments callers pass: some within the buffer,
\* one (2 x 2 on the 8-byte buffer) past its end.
RawBuffers == {"buf8", "buf16"}
BufferBytes(buf) == IF buf = "buf8" THEN 8 ELSE 16
RawArgs == {<<1, 2, "buf8">>, <<2, 2, "buf8">>, <<2, 1, "buf16">>, <<2, 2, "buf16">>}
UninitInfo == [width |-> 0, height |-> 0, format |-> "uninit"]

(* --------------------------- memory reads ------------------------------- *)
\* What a read of `need` bytes through a pointer into a region of `have`
\* bytes can yield.  A read inside a live region yields the region's bytes;
\* a read past its end, or through a pointer whose region may have moved,
\* yields whatever lies there.
NoPixels == [src |-> "none", bytes |-> 0, rest |-> "none"]
ReadPixels(src, have, need, pinned) ==
    LET inside == IF need <= have THEN need ELSE have
        exact == [src |-> src, bytes |-> inside,
                  rest |-> IF need <= have THEN "none" ELSE "overread"]
    IN  IF pinned THEN {exact}
        ELSE {exact, [src |-> "stale", bytes |-> 0, rest |-> "dangling"]}

\* The bytes before a string literal in .rodata, as a C string.
RodataGarbage == {"", "\\x7f"}
\* `literal + n` where literal is a const char* : pointer arithmetic.
PtrPlusInt(literal, n) == [base |-> literal, off |-> n]
\* std::string(const char*): the characters from the pointer to the first NUL.
\* Inside the literal that is a suffix of it; outside it is undefined.
StdString(ptr) ==
    IF ptr.off \in 0..Len(ptr.base)
    THEN {[text |-> ptr.base, skip |-> ptr.off]}
    ELSE {[text |-> g, skip |-> 0] : g \in RodataGarbage}
NoMessage == [text |-> "", skip |-> 0]

(* ------------------------------- state ---------------------------------- *)
VARIABLES
    pc,          \* thread -> the statement of the constructor it is at
    frame,       \* thread -> locals of the running constructor
    glNames,     \* texture names generated and not deleted
    bound,       \* the texture bound to GL_TEXTURE_2D (0: the default texture)
    storage,     \* texture name -> its level-0 image
    locked,      \* bitmap -> number of pixel locks held
    resources,   \* the constructed BaseTexture objects the callers hold
    outcome,     \* thread -> how its latest construction went
    trace,       \* thread -> the external calls of its latest constructor body
    started,     \* number of constructions started
    lastOk,      \* handle of the latest completed construction (0: none)
    lastCall     \* the latest getTarget call and its result

vars == <<pc, frame, glNames, bound, storage, locked, resources, outcome,
          trace, started, lastOk, lastCall>>

NoStorage == [width |-> 0, height |-> 0, internalformat |-> "none",
              format |-> "none", type |-> "none", pixels |-> NoPixels]
NoFrame == [kind |-> "none", gl_texture_ |-> 0, bitmap |-> "none",
            info |-> UninitInfo, pixels |-> "uninit", ret |-> 0,
            width |-> 0, height |-> 0, buf |-> "none", holds |-> FALSE,
            intervened |-> FALSE]
NoOutcome == [status |-> "none", cid |-> 0, kind |-> "none", stage |-> "none",
              infoRet |-> 1, lockRet |-> 1, msg |-> NoMessage,
              handle |-> 0, bound0 |-> 0, bound1 |-> 0]
NoCall == [made |-> FALSE, kind |-> "none", result |-> "none"]

Init ==
    /\ pc = [t \in Threads |-> "idle"]
    /\ frame = [t \in Threads |-> NoFrame]
    /\ glNames = {}
    /\ bound = 0
    /\ storage = [h \in 0..MaxConstructions |-> NoStorage]
    /\ locked = [b \in Bitmaps |-> 0]
    /\ resources = {}
    /\ outcome = [t \in Threads |-> NoOutcome]
    /\ trace = [t \in Threads |-> <<>>]
    /\ started = 0
    /\ lastOk = 0
    /\ lastCall = NoCall

(* ------------------- the external APIs the code calls ------------------- *)
\* new GLTexture(TARGET): a texture name the context does not use yet.
FreshNames == Handles \ glNames
\* ~Texture() while a throwing constructor unwinds: the name is deleted, and
\* a deleted texture that is bound leaves the default texture bound.
ReleaseTexture(id) ==
    /\ glNames' = glNames \ {id}
    /\ storage' = [storage EXCEPT ![id] = NoStorage]
    /\ bound' = IF bound = id THEN 0 ELSE bound
\* glBindTexture(GL_TEXTURE_2D, id)
glBindTexture(target, id) == bound' = id
\* glTexImage2D(GL_TEXTURE_2D, 0, ...): defines the image of the texture that
\* is bound to the target at the time of the call.
glTexImage2D(target, args) == storage' = [storage EXCEPT ![bound] = args]

(* -------------------- BaseTexture(JNIEnv *e, jobject) ------------------- *)
\* (variant: the test misses the code -1)
GetInfoFailedBelowMinusOne(ret) == ret < 0 - 1
\* if ((ret = AndroidBitmap_getInfo(env, bitmap, &info)) < 0)
GetInfoFailed(ret) == ret < 0
\* (variant: the test misses the code -1)
LockPixelsFailedBelowMinusOne(ret) == ret < 0 - 1
\* if ((ret = AndroidBitmap_lockPixels(env, bitmap, &pixels)) < 0)
LockPixelsFailed(ret) == ret < 0
\* std::string error = "... failed! error = " + ret;
ErrorString(literal, ret) == StdString(PtrPlusInt(literal, ret))
\* (variant: the pixels stay locked across the bind)
NextStatementUnlockAfterBind(stmt) ==
    CASE stmt = "getInfo"      -> "lockPixels"
      [] stmt = "lockPixels"   -> "bind"
      [] stmt = "bind"         -> "unlockPixels"
      [] stmt = "unlockPixels" -> "upload"
      [] stmt = "rawBind"      -> "rawUpload"
      [] OTHER                 -> "idle"
\* The statement that follows `stmt` in the constructor body.
NextStatement(stmt) ==
    CASE stmt = "getInfo"      -> "lockPixels"
      [] stmt = "lockPixels"   -> "unlockPixels"
      [] stmt = "unlockPixels" -> "bind"
      [] stmt = "bind"         -> "upload"
      [] stmt = "rawBind"      -> "rawUpload"
      [] OTHER                 -> "idle"
\* (variant: binds the default texture instead of this resource's)
BindIdDefault(f) == 0
\* (variant: binds the texture that is bound already)
BindIdCurrent(f) == bound
\* gl_texture_->id(), the name given to glBindTexture
BindId(f) == f.gl_texture_
\* (variant: width and height exchanged)
TexImageArgsSwapped(info, read) ==
    [width |-> info.height, height |-> info.width, internalformat |-> GL_RGBA,
     format |-> GL_RGBA, type |-> GL_UNSIGNED_BYTE, pixels |-> read]
\* glTexImage2D(GL_TEXTURE_2D, 0, GL_RGBA, info.width, info.height, 0,
\*              GL_RGBA, GL_UNSIGNED_BYTE, pixels)
TexImageArgs(info, read) ==
    [width |-> info.width, height |-> info.height, internalformat |-> GL_RGBA,
     format |-> GL_RGBA, type |-> GL_UNSIGNED_BYTE, pixels |-> read]
\* (variant: width and height exchanged)
RawTexImageArgsSwapped(width, height, read) ==
    [width |-> height, height |-> width, internalformat |-> GL_RGBA,
     format |-> GL_RGBA, type |-> GL_UNSIGNED_BYTE, pixels |-> read]
\* glTexImage2D(GL_TEXTURE_2D, 0, GL_RGBA, width, height, 0, GL_RGBA,
\*              GL_UNSIGNED_BYTE, pixels)
RawTexImageArgs(width, height, read) ==
    [width |-> width, height |-> height, internalformat |-> GL_RGBA,
     format |-> GL_RGBA, type |-> GL_UNSIGNED_BYTE, pixels |-> read]
\* (variant: the target depends on how the resource was built)
getTargetByKind(this) ==
    IF this.kind = "raw" THEN "GL_TEXTURE_CUBE_MAP" ELSE TARGET
\* GLenum getTarget() const { return TARGET; }
getTarget(this) == TARGET

\* The caller starts `new BaseTexture(env, bitmap)`: the base initialiser
\* Texture(new GLTexture(TARGET)) runs before the body.
NewFromBitmap(t, bitmap) ==
    /\ pc[t] = "idle"
    /\ started < MaxConstructions
    /\ \E id \in FreshNames :
        /\ glNames' = glNames \cup {id}
        /\ frame' = [frame EXCEPT ![t] =
                [NoFrame EXCEPT !.kind = "bitmap", !.gl_texture_ = id,
                                !.bitmap = bitmap]]
        /\ outcome' = [outcome EXCEPT ![t] =
                [NoOutcome EXCEPT !.status = "running", !.cid = started + 1,
                                  !.kind = "bitmap", !.handle = id,
                                  !.bound0 = bound, !.bound1 = bound]]
    /\ started' = started + 1
    /\ trace' = [trace EXCEPT ![t] = <<>>]
    /\ pc' = [pc EXCEPT ![t] = "getInfo"]
    /\ UNCHANGED <<bound, storage, locked, resources, lastOk, lastCall>>

\* throw error; the base subobject is destroyed and the caller gets no object.
Throw(t, stage, literal, ret) ==
    /\ \E msg \in ErrorString(literal, ret) :
        outcome' = [outcome EXCEPT ![t].status = "thrown", ![t].stage = stage,
                                   ![t].msg = msg,
                                   ![t].infoRet = IF stage = "getInfo" THEN ret ELSE @,
                                   ![t].lockRet = IF stage = "lockPixels" THEN ret ELSE @,
                                   ![t].bound1 = IF bound = frame[t].gl_texture_
                                                 THEN 0 ELSE bound]
    /\ ReleaseTexture(frame[t].gl_texture_)
    /\ frame' = [frame EXCEPT ![t] = NoFrame]
    /\ pc' = [pc EXCEPT ![t] = "idle"]

\* ret = AndroidBitmap_getInfo(env, bitmap, &info)
GetInfo(t) ==
    /\ pc[t] = "getInfo"
    /\ trace' = [trace EXCEPT ![t] = Append(@, "getInfo")]
    /\ \E ret \in RetCodes :
        IF GetInfoFailed(ret)
        THEN /\ Throw(t, "getInfo", GetInfoLiteral, ret)
             /\ UNCHANGED <<locked, resources, started, lastOk, lastCall>>
        ELSE /\ frame' = [frame EXCEPT ![t].ret = ret,
                    ![t].info = IF ret = 0 THEN BitmapInfo(frame[t].bitmap)
                                ELSE UninitInfo]
             /\ outcome' = [outcome EXCEPT ![t].infoRet = ret]
             /\ pc' = [pc EXCEPT ![t] = NextStatement("getInfo")]
             /\ UNCHANGED <<glNames, bound, storage, locked, resources,
                            started, lastOk, lastCall>>

\* ret = AndroidBitmap_lockPixels(env, bitmap, &pixels)
LockPixels(t) ==
    /\ pc[t] = "lockPixels"
    /\ trace' = [trace EXCEPT ![t] = Append(@, "lockPixels")]
    /\ \E ret \in RetCodes :
        IF LockPixelsFailed(ret)
        THEN /\ Throw(t, "lockPixels", LockPixelsLiteral, ret)
             /\ UNCHANGED <<locked, resources, started, lastOk, lastCall>>
        ELSE /\ frame' = [frame EXCEPT ![t].ret = ret, ![t].holds = (ret = 0),
                    ![t].pixels = IF ret = 0 THEN frame[t].bitmap ELSE "uninit"]
             /\ locked' = [locked EXCEPT ![frame[t].bitmap] =
                              IF ret = 0 THEN @ + 1 ELSE @]
             /\ outcome' = [outcome EXCEPT ![t].lockRet = ret]
             /\ pc' = [pc EXCEPT ![t] = NextStatement("lockPixels")]
             /\ UNCHANGED <<glNames, bound, storage, resources, started,
                            lastOk, lastCall>>

\* AndroidBitmap_unlockPixels(env, bitmap)
UnlockPixels(t) ==
    /\ pc[t] = "unlockPixels"
    /\ trace' = [trace EXCEPT ![t] = Append(@, "unlockPixels")]
    /\ locked' = [locked EXCEPT ![frame[t].bitmap] = IF @ > 0 THEN @ - 1 ELSE 0]
    /\ frame' = [frame EXCEPT ![t].holds = FALSE]
    /\ pc' = [pc EXCEPT ![t] = NextStatement("unlockPixels")]
    /\ UNCHANGED <<glNames, bound, storage, resources, outcome,
                   started, lastOk, lastCall>>

\* glBindTexture(GL_TEXTURE_2D, gl_texture_->id()), in either constructor.
\* A bind that falls between another thread's bind and its upload is noted
\* in that thread's frame.
Bind(t) ==
    /\ pc[t] \in {"bind", "rawBind"}
    /\ trace' = [trace EXCEPT ![t] = Append(@, "bind")]
    /\ glBindTexture(GL_TEXTURE_2D, BindId(frame[t]))
    /\ frame' = [u \in Threads |->
                    IF u # t /\ pc[u] \in {"upload", "rawUpload"}
                    THEN [frame[u] EXCEPT !.intervened = TRUE]
                    ELSE frame[u]]
    /\ pc' = [pc EXCEPT ![t] = NextStatement(pc[t])]
    /\ UNCHANGED <<glNames, storage, locked, resources, outcome, started,
                   lastOk, lastCall>>

\* The object the caller holds once a constructor has returned.
Resource(t, landed) ==
    [cid |-> outcome[t].cid, kind |-> frame[t].kind,
     src |-> IF frame[t].kind = "bitmap" THEN frame[t].bitmap ELSE frame[t].buf,
     handle |-> frame[t].gl_texture_,
     width |-> IF frame[t].kind = "bitmap" THEN frame[t].info.width
               ELSE frame[t].width,
     height |-> IF frame[t].kind = "bitmap" THEN frame[t].info.height
                ELSE frame[t].height,
     landed |-> landed, intervened |-> frame[t].intervened,
     lockHeld |-> frame[t].holds]

Return(t) ==
    /\ resources' = resources \cup {Resource(t, bound)}
    /\ outcome' = [outcome EXCEPT ![t].status = "ok", ![t].bound1 = bound]
    /\ lastOk' = frame[t].gl_texture_
    /\ frame' = [frame EXCEPT ![t] = NoFrame]
    /\ pc' = [pc EXCEPT ![t] = NextStatement(pc[t])]

\* glTexImage2D(..., info.width, info.height, ..., pixels), then the
\* constructor returns.  `pixels` was obtained under a lock that has been
\* released: the read is of the bitmap's bytes only while some lock pins them.
Upload(t) ==
    /\ pc[t] = "upload"
    /\ trace' = [trace EXCEPT ![t] = Append(@, "upload")]
    /\ \E read \in ReadPixels(frame[t].pixels, BitmapBytes(frame[t].bitmap),
                              frame[t].info.width * frame[t].info.height * 4,
                              locked[frame[t].bitmap] > 0) :
        glTexImage2D(GL_TEXTURE_2D, TexImageArgs(frame[t].info, read))
    /\ Return(t)
    /\ UNCHANGED <<glNames, bound, locked, started, lastCall>>

(* ------------- BaseTexture(int, int, const unsigned char *p) ----------- *)
NewFromBuffer(t, width, height, buf) ==
    /\ pc[t] = "idle"
    /\ started < MaxConstructions
    /\ \E id \in FreshNames :
        /\ glNames' = glNames \cup {id}
        /\ frame' = [frame EXCEPT ![t] =
                [NoFrame EXCEPT !.kind = "raw", !.gl_texture_ = id,
                                !.width = width, !.height = height,
                                !.buf = buf]]
        /\ outcome' = [outcome EXCEPT ![t] =
                [NoOutcome EXCEPT !.status = "running", !.cid = started + 1,
                                  !.kind = "raw", !.handle = id,
                                  !.bound0 = bound, !.bound1 = bound]]
    /\ started' = started + 1
    /\ trace' = [trace EXCEPT ![t] = <<>>]
    /\ pc' = [pc EXCEPT ![t] = "rawBind"]
    /\ UNCHANGED <<bound, storage, locked, resources, lastOk, lastCall>>

\* glTexImage2D(..., width, height, ..., pixels), then the constructor returns.
RawUpload(t) ==
    /\ pc[t] = "rawUpload"
    /\ trace' = [trace EXCEPT ![t] = Append(@, "upload")]
    /\ \E read \in ReadPixels(frame[t].buf, BufferBytes(frame[t].buf),
                              frame[t].width * frame[t].height * 4, TRUE) :
        glTexImage2D(GL_TEXTURE_2D,
                     RawTexImageArgs(frame[t].width, frame[t].height, read))
    /\ Return(t)
    /\ UNCHANGED <<glNames, bound, locked, started, lastCall>>

(* ------------------------------ getTarget -------------------------------- *)
GetTarget(r) ==
    /\ lastCall' = [made |-> TRUE, kind |-> r.kind, result |-> getTarget(r)]
    /\ UNCHANGED <<pc, frame, glNames, bound, storage, locked, resources,
                   outcome, trace, started, lastOk>>

(* --------------------------- specifications ------------------------------ *)
Step(t) ==
    \/ \E bitmap \in Bitmaps : NewFromBitmap(t, bitmap)
    \/ GetInfo(t)
    \/ LockPixels(t)
    \/ UnlockPixels(t)
    \/ Bind(t)
    \/ Upload(t)
    \/ \E a \in RawArgs : NewFromBuffer(t, a[1], a[2], a[3])
    \/ RawUpload(t)

CallGetTarget == \E r \in resources : GetTarget(r)

\* Threads that share the GL context with no serialization.
Next == (\E t \in Threads : Step(t)) \/ CallGetTarget
Spec == Init /\ [][Next]_vars

\* The caller serializes constructions: one runs from start to end before
\* the next one starts.
Serialized(t) == \A u \in Threads \ {t} : pc[u] = "idle"
SerialNext == (\E t \in Threads : Serialized(t) /\ Step(t)) \/ CallGetTarget
SerialSpec == Init /\ [][SerialNext]_vars

(* ------------------------------- claims ---------------------------------- *)
Quiescent == \A t \in Threads : pc[t] = "idle"
FullTrace == <<"getInfo", "lockPixels", "unlockPixels", "bind", "upload">>
IsRGBA8(image) ==
    /\ image.internalformat = GL_RGBA
    /\ image.format = GL_RGBA
    /\ image.type = GL_UNSIGNED_BYTE
\* No object of construction `o` is held by a caller, and the name its base
\* initialiser generated belongs to no object unless a later construction
\* generated it again.
NothingReachable(o) ==
    \A r \in resources :
        /\ r.cid # o.cid
        /\ r.handle = o.handle => r.cid > o.cid

\* C1: when AndroidBitmap_getInfo returns a negative code the bitmap
\* constructor throws at that point: getInfo is the only external call of the
\* body (no lock, unlock, bind or upload), the GL_TEXTURE_2D binding is what
\* it was when the construction started, and the caller holds no object of
\* that construction, nor the texture name its base initialiser generated.
C1_GetInfoFailureAborts ==
    \A t \in Threads :
        outcome[t].infoRet < 0 =>
            /\ outcome[t].status = "thrown"
            /\ outcome[t].stage = "getInfo"
            /\ trace[t] = <<"getInfo">>
            /\ outcome[t].bound1 = outcome[t].bound0
            /\ NothingReachable(outcome[t])
\* A construction failed in getInfo while an earlier texture was bound.
C1_Witness ==
    \E t \in Threads :
        /\ outcome[t].infoRet < 0
        /\ outcome[t].status = "thrown"
        /\ outcome[t].bound0 # 0
        /\ resources # {}

\* C2: when getInfo succeeds and AndroidBitmap_lockPixels returns a negative
\* code the constructor throws at that point: the body's calls are exactly
\* getInfo then one lockPixels (no unlock, no second lock, no bind, no
\* upload), no lock is left held, the binding is unchanged and the caller
\* holds nothing of that construction.
C2_LockFailureAborts ==
    \A t \in Threads :
        (outcome[t].infoRet = 0 /\ outcome[t].lockRet < 0) =>
            /\ outcome[t].status = "thrown"
            /\ outcome[t].stage = "lockPixels"
            /\ trace[t] = <<"getInfo", "lockPixels">>
            /\ outcome[t].bound1 = outcome[t].bound0
            /\ Quiescent => \A b \in Bitmaps : locked[b] = 0
            /\ NothingReachable(outcome[t])
\* A construction failed in lockPixels while an earlier texture was bound.
C2_Witness ==
    \E t \in Threads :
        /\ outcome[t].infoRet = 0
        /\ outcome[t].lockRet < 0
        /\ outcome[t].status = "thrown"
        /\ outcome[t].bound0 # 0
        /\ resources # {}

\* C3: the error thrown for a failing platform code r carries r: its message
\* is the literal followed by r, so that errors for different codes differ.
\* The message that embeds the code: the literal followed by the decimal code.
EmbeddedMessage(literal, code) == [text |-> literal \o ToString(code), skip |-> 0]
ThrownCode(o) == IF o.stage = "getInfo" THEN o.infoRet ELSE o.lockRet
ThrownLiteral(o) ==
    IF o.stage = "getInfo" THEN GetInfoLiteral ELSE LockPixelsLiteral
C3_ErrorCarriesCode ==
    /\ \A t \in Threads :
        outcome[t].status = "thrown" =>
            outcome[t].msg =
                EmbeddedMessage(ThrownLiteral(outcome[t]), ThrownCode(outcome[t]))
    /\ \A t, u \in Threads :
        (/\ outcome[t].status = "thrown"
         /\ outcome[u].status = "thrown"
         /\ ThrownCode(outcome[t]) # ThrownCode(outcome[u]))
            => outcome[t].msg # outcome[u].msg

\* C4: the image of the texture of every resource built from a bitmap has
\* the bitmap's width and height and is RGBA with unsigned-byte channels,
\* whatever format the bitmap's metadata reports (serialized constructions).
C4_BitmapTextureDims ==
    \A r \in resources :
        r.kind = "bitmap" =>
            /\ storage[r.handle].width = BitmapInfo(r.src).width
            /\ storage[r.handle].height = BitmapInfo(r.src).height
            /\ IsRGBA8(storage[r.handle])
\* A resource was built from the RGB_565 bitmap.
C4_Witness ==
    \E r \in resources :
        /\ r.kind = "bitmap"
        /\ BitmapInfo(r.src).format # "ANDROID_BITMAP_FORMAT_RGBA_8888"
        /\ storage[r.handle].width = 2

\* C5: the raw-buffer constructor never throws; when the buffer holds at
\* least width * height * 4 bytes the texture of the resource has that width
\* and height, is RGBA8 and holds the buffer's bytes, and getTarget on the
\* resource gives GL_TEXTURE_2D (serialized constructions).
C5_RawConstructionSucceeds ==
    /\ \A t \in Threads :
        outcome[t].kind = "raw" => outcome[t].status \in {"running", "ok"}
    /\ \A t \in Threads :
        (outcome[t].kind = "raw" /\ pc[t] = "idle") =>
            \E r \in resources : r.cid = outcome[t].cid
    /\ \A r \in resources :
        (r.kind = "raw" /\ BufferBytes(r.src) >= r.width * r.height * 4) =>
            /\ storage[r.handle].width = r.width
            /\ storage[r.handle].height = r.height
            /\ IsRGBA8(storage[r.handle])
            /\ storage[r.handle].pixels =
                  [src |-> r.src, bytes |-> r.width * r.height * 4,
                   rest |-> "none"]
            /\ getTarget(r) = GL_TEXTURE_2D
    /\ (lastCall.made /\ lastCall.kind = "raw") => lastCall.result = GL_TEXTURE_2D
\* A 1 x 2 texture was built from the 8-byte buffer and asked for its target.
C5_Witness ==
    /\ \E r \in resources :
        /\ r.kind = "raw"
        /\ r.width = 1 /\ r.height = 2
        /\ BufferBytes(r.src) = 8
    /\ lastCall.made /\ lastCall.kind = "raw"

\* C6: two resources built from the same bitmap have different texture names
\* and textures with the same dimensions and the same pixel content.
C6_SameBitmapSameContent ==
    \A r1, r2 \in resources :
        (/\ r1.kind = "bitmap" /\ r2.kind = "bitmap"
         /\ r1.cid # r2.cid /\ r1.src = r2.src)
            => /\ r1.handle # r2.handle
               /\ storage[r1.handle] = storage[r2.handle]

\* C7: the body of a completed bitmap construction made exactly the calls
\* getInfo, lockPixels, unlockPixels, bind, upload, in this order, once each;
\* the constructor holds no pixel lock when it binds or uploads.
IsPrefix(s, full) == Len(s) <= Len(full) /\ s = SubSeq(full, 1, Len(s))
C7_CallOrder ==
    /\ \A t \in Threads :
        (outcome[t].kind = "bitmap" /\ outcome[t].status = "ok")
            => trace[t] = FullTrace
    /\ \A t \in Threads :
        (outcome[t].kind = "bitmap" /\ outcome[t].status = "running")
            => IsPrefix(trace[t], FullTrace)
    /\ \A t \in Threads : pc[t] \in {"bind", "upload"} => ~frame[t].holds
    /\ \A r \in resources : ~r.lockHeld
\* A bitmap construction completed.
C7_Witness ==
    \E t \in Threads :
        /\ outcome[t].kind = "bitmap"
        /\ outcome[t].status = "ok"
        /\ Len(trace[t]) = 5

\* C8: an upload lands on a texture other than the resource's own exactly
\* when another thread's bind fell between the resource's bind and its
\* upload; with no such bind (serialized use) it lands on the resource's own.
C8_UploadTarget ==
    \A r \in resources : (r.landed # r.handle) <=> r.intervened
\* Two threads interleaved: a resource completed whose upload landed on the
\* other resource's texture, and its own texture has no image.
C8_Witness ==
    \E r \in resources :
        /\ r.landed # r.handle
        /\ r.landed # 0
        /\ storage[r.handle] = NoStorage

\* C9: with serialized constructions, whenever no construction is running the
\* binding is the texture of the latest completed construction, and no step
\* changes the image of a texture of a resource that is already constructed.
C9_BindingAndFrame ==
    /\ []((Quiescent /\ lastOk # 0) => bound = lastOk)
    /\ [][\A r \in resources : storage'[r.handle] = storage[r.handle]]_vars
\* A construction failed after one had completed; the binding and the image
\* of the completed one are in place.
C9_Witness ==
    /\ Quiescent
    /\ \E r \in resources : \E t \in Threads :
        /\ outcome[t].status = "thrown"
        /\ outcome[t].cid > r.cid
        /\ bound = r.handle
        /\ storage[r.handle].width = r.width

\* C10: getTarget gives GL_TEXTURE_2D for every resource, and a getTarget
\* call changes neither the binding nor any image nor any bitmap's locks.
C10_GetTargetPure ==
    /\ [](\A r \in resources : getTarget(r) = GL_TEXTURE_2D)
    /\ [](lastCall.made => lastCall.result = GL_TEXTURE_2D)
    /\ [][lastCall' # lastCall =>
            UNCHANGED <<bound, storage, locked, glNames, resources>>]_vars
\* getTarget was called on a raw-buffer resource while a bitmap resource's
\* texture was bound.
C10_Witness ==
    /\ lastCall.made
    /\ lastCall.kind = "raw"
    /\ \E r \in resources : r.kind = "bitmap" /\ bound = r.handle

====
